---------------------------- MODULE Spec2Model ----------------------------
(***************************************************************************)
(* RWMutex of mongo-lock-node: a distributed reader/writer lock kept in    *)
(* one MongoDB document per lockID.  The model follows lib/RWMutex.ts      *)
(* (the revision with tryOverrideLockWriter and                            *)
(* conditionalOverrideLockWriter).  One lockID, NumClients clients, each   *)
(* a single-threaded RWMutex instance.  Every await on the collection is   *)
(* one step; an upsert that finds no document is two steps (query, then    *)
(* insert), which is where MongoDB's unique index raises E11000.           *)
(***************************************************************************)
EXTENDS Integers, Sequences, FiniteSets, TLC

\* ------------------------------------------------------------- bounds
NumClients == 2

\* the timeout of conditionalOverrideLockWriter, in sleepTime units
Timeout == 2

\* ---------------------------------------------------------- constants
\* writer: "" -- the empty writer; client ids "1","2",... are 1,2,...,
\* so that "" < "1" < "2" keeps the lexicographic order of the strings.
EmptyWriter == 0

Clients == 1..NumClients

VARIABLES
  rec,      \* the lock document of the collection, or NoRecord
  pc,       \* pc[c]: where client c's current call is suspended
  op,       \* op[c]: the public method c is in, or ran last
  result,   \* result[c]: how c's last call ended ("none" while running)
  holdW,    \* holdW[c]: c observes itself as writer ("no","yes","lost")
  holdR,    \* holdR[c]: c observes itself as reader
  old,      \* old[c]: oldWriter of c's tryOverrideLockWriter
  ups,      \* ups[c]: upsert of c's override call
  elapsed,  \* elapsed[c]: Date.now() - start of c's conditional override,
            \* counted in sleepTime units
  reentry   \* reentry[c]: c's last lock()/rLock() returned on a record
            \* that already named c as writer/reader

vars == <<rec, pc, op, result, holdW, holdR, old, ups, elapsed, reentry>>

\* ------------------------------------------------------------ records
NoRecord == [exists |-> FALSE, writer |-> EmptyWriter, readers |-> <<>>]

MongoLock(w, rs) == [exists |-> TRUE, writer |-> w, readers |-> rs]

Elems(s) == {s[i] : i \in 1..Len(s)}

\* $push in place of $addToSet
Push(s, x) == Append(s, x)

\* $addToSet: append unless already an element
AddToSet(s, x) == IF x \in Elems(s) THEN s ELSE Append(s, x)

\* $pull: remove every occurrence
Pull(s, x) == SelectSeq(s, LAMBDA y : y # x)

\* ------------------------------------------------------------ filters
emptyReadersQuery(r) == Len(r.readers) = 0

emptyWriterQuery(r) == r.writer = EmptyWriter

\* the filter without emptyReadersQuery
LockFilterIgnoresReaders(r, c) ==
  r.exists /\ (emptyWriterQuery(r) \/ r.writer = c)

\* the filter without the writer clause
LockFilterIgnoresWriter(r, c) == r.exists /\ emptyReadersQuery(r)

\* the filter without {writer: clientID}
LockFilterNotReentrant(r, c) ==
  r.exists /\ emptyReadersQuery(r) /\ emptyWriterQuery(r)

\* the filter without emptyWriterQuery
LockFilterOwnWriterOnly(r, c) ==
  r.exists /\ emptyReadersQuery(r) /\ r.writer = c

LockFilter(r, c) ==
  r.exists /\ emptyReadersQuery(r) /\ (emptyWriterQuery(r) \/ r.writer = c)

\* the delete without emptyReadersQuery
UnlockDeleteIgnoresReaders(r, c) == r.exists /\ r.writer = c

UnlockDeleteFilter(r, c) ==
  r.exists /\ r.writer = c /\ emptyReadersQuery(r)

\* the fallback update without {writer: clientID}
UnlockUpdateIgnoresWriter(r, c) == r.exists

UnlockUpdateFilter(r, c) == r.exists /\ r.writer = c

\* the filter asking for no readers as well
RLockFilterNeedsNoReaders(r, c) ==
  r.exists /\ emptyWriterQuery(r) /\ emptyReadersQuery(r)

\* a filter that lets the writer read: {writer: clientID} as lock() has it
RLockFilterOwnWriter(r, c) ==
  r.exists /\ (emptyWriterQuery(r) \/ r.writer = c)

RLockFilter(r, c) == r.exists /\ emptyWriterQuery(r)

\* the delete without $all: [clientID]
RUnlockDeleteAnySoleReader(r, c) ==
  r.exists /\ emptyWriterQuery(r) /\ Len(r.readers) = 1

\* the delete without $size: 1
RUnlockDeleteAnySize(r, c) ==
  r.exists /\ emptyWriterQuery(r) /\ c \in Elems(r.readers)

\* the delete without emptyWriterQuery
RUnlockDeleteIgnoresWriter(r, c) ==
  r.exists /\ Len(r.readers) = 1 /\ c \in Elems(r.readers)

RUnlockDeleteFilter(r, c) ==
  r.exists /\ emptyWriterQuery(r) /\ Len(r.readers) = 1 /\ c \in Elems(r.readers)

RUnlockUpdateFilter(r, c) == r.exists /\ c \in Elems(r.readers)

\* ------------------------------------------------------------ updates
LockSet(r, c) == MongoLock(c, <<>>)

UnlockSet(r, c) == MongoLock(EmptyWriter, r.readers)

\* $set: {readers: [clientID]} in place of $addToSet
RLockSetReplaces(r, c) == MongoLock(EmptyWriter, <<c>>)

RLockSet(r, c) == MongoLock(EmptyWriter, AddToSet(r.readers, c))

RUnlockPull(r, c) == MongoLock(r.writer, Pull(r.readers, c))

\* --------------------------------------------------------------- init
Init ==
  /\ rec = NoRecord
  /\ pc = [c \in Clients |-> "idle"]
  /\ op = [c \in Clients |-> "none"]
  /\ result = [c \in Clients |-> "none"]
  /\ holdW = [c \in Clients |-> "no"]
  /\ holdR = [c \in Clients |-> FALSE]
  /\ old = [c \in Clients |-> EmptyWriter]
  /\ ups = [c \in Clients |-> FALSE]
  /\ elapsed = [c \in Clients |-> 0]
  /\ reentry = [c \in Clients |-> FALSE]

\* a call ends: the promise resolves or rejects with r
Return(c, r) ==
  /\ pc' = [pc EXCEPT ![c] = "idle"]
  /\ result' = [result EXCEPT ![c] = r]
  /\ old' = [old EXCEPT ![c] = EmptyWriter]
  /\ ups' = [ups EXCEPT ![c] = FALSE]
  /\ elapsed' = [elapsed EXCEPT ![c] = 0]
  /\ UNCHANGED op

\* lock()/rLock() resolves; again says the record already named c
Acquired(c, again) ==
  /\ Return(c, "ok")
  /\ reentry' = [reentry EXCEPT ![c] = again]

\* any other end of a call
Ended(c, r) ==
  /\ Return(c, r)
  /\ UNCHANGED reentry

\* the call goes on to its next await
Goto(c, l) ==
  /\ pc' = [pc EXCEPT ![c] = l]
  /\ UNCHANGED <<op, result, old, ups, elapsed, reentry>>

\* a public method is called with oldWriter o and upsert u
Begin(c, m, l, o, u) ==
  /\ pc[c] = "idle"
  /\ op' = [op EXCEPT ![c] = m]
  /\ pc' = [pc EXCEPT ![c] = l]
  /\ result' = [result EXCEPT ![c] = "none"]
  /\ old' = [old EXCEPT ![c] = o]
  /\ ups' = [ups EXCEPT ![c] = u]
  /\ elapsed' = [elapsed EXCEPT ![c] = 0]
  /\ reentry' = [reentry EXCEPT ![c] = FALSE]

\* ------------------------------------------------------------- lock()
CallLock(c) ==
  /\ Begin(c, "lock", "update", EmptyWriter, FALSE)
  /\ UNCHANGED <<rec, holdW, holdR>>

\* a lock() that claims the writer field of a record held by readers
\* before it waits for them to leave
LockUpdateClaimsFirst(c) ==
  /\ op[c] = "lock" /\ pc[c] = "update"
  /\ IF LockFilter(rec, c)
       THEN /\ rec' = LockSet(rec, c)
            /\ Acquired(c, rec.writer = c)
            /\ holdW' = [holdW EXCEPT ![c] = "yes"]
       ELSE /\ Goto(c, IF rec.exists THEN "sleep" ELSE "insert")
            /\ rec' = IF rec.exists /\ emptyWriterQuery(rec)
                        THEN MongoLock(c, rec.readers) ELSE rec
            /\ UNCHANGED holdW
  /\ UNCHANGED holdR

\* updateOne(..., {upsert: true}): a match, or E11000 when the document
\* is there and does not match, or the insert half when there is none
LockUpdate(c) ==
  /\ op[c] = "lock" /\ pc[c] = "update"
  /\ IF LockFilter(rec, c)
       THEN /\ rec' = LockSet(rec, c)
            /\ Acquired(c, rec.writer = c)
            /\ holdW' = [holdW EXCEPT ![c] = "yes"]
       ELSE /\ Goto(c, IF rec.exists THEN "sleep" ELSE "insert")
            /\ UNCHANGED <<rec, holdW>>
  /\ UNCHANGED holdR

\* the insert half with a catch that rethrows E11000 like any other error
LockInsertSurfacesConflict(c) ==
  /\ op[c] = "lock" /\ pc[c] = "insert"
  /\ IF rec.exists
       THEN /\ Ended(c, "StoreError")
            /\ UNCHANGED <<rec, holdW>>
       ELSE /\ rec' = LockSet(rec, c)
            /\ Acquired(c, FALSE)
            /\ holdW' = [holdW EXCEPT ![c] = "yes"]
  /\ UNCHANGED holdR

\* the insert half on a collection without the unique index on lockID
LockInsertOverwrites(c) ==
  /\ op[c] = "lock" /\ pc[c] = "insert"
  /\ rec' = LockSet(rec, c)
  /\ Acquired(c, FALSE)
  /\ holdW' = [holdW EXCEPT ![c] = "yes"]
  /\ UNCHANGED holdR

\* the insert half of the upsert; E11000 when a document is there by now
LockInsert(c) ==
  /\ op[c] = "lock" /\ pc[c] = "insert"
  /\ IF rec.exists
       THEN /\ Goto(c, "sleep")
            /\ UNCHANGED <<rec, holdW>>
       ELSE /\ rec' = LockSet(rec, c)
            /\ Acquired(c, FALSE)
            /\ holdW' = [holdW EXCEPT ![c] = "yes"]
  /\ UNCHANGED holdR

\* a loop that gives up after its first sleep
WakeGivesUp(c) ==
  /\ op[c] \in {"lock", "rLock"} /\ pc[c] = "sleep"
  /\ Ended(c, "StoreError")
  /\ UNCHANGED <<rec, holdW, holdR>>

\* timeoutPromise(sleepTime) resolves; the loop runs again
Wake(c) ==
  /\ op[c] \in {"lock", "rLock"} /\ pc[c] = "sleep"
  /\ Goto(c, "update")
  /\ UNCHANGED <<rec, holdW, holdR>>

\* ----------------------------------------------------------- unlock()
CallUnlock(c) ==
  /\ Begin(c, "unlock", "delete", EmptyWriter, FALSE)
  /\ holdW' = [holdW EXCEPT ![c] = "no"]
  /\ UNCHANGED <<rec, holdR>>

UnlockDelete(c) ==
  /\ op[c] = "unlock" /\ pc[c] = "delete"
  /\ IF UnlockDeleteFilter(rec, c)
       THEN rec' = NoRecord /\ Ended(c, "ok")
       ELSE Goto(c, "update") /\ UNCHANGED rec
  /\ UNCHANGED <<holdW, holdR>>

\* an unlock() that tries again when it does not hold the lock
UnlockUpdateRetries(c) ==
  /\ op[c] = "unlock" /\ pc[c] = "update"
  /\ IF UnlockUpdateFilter(rec, c)
       THEN rec' = UnlockSet(rec, c) /\ Ended(c, "ok")
       ELSE UNCHANGED rec /\ Goto(c, "delete")
  /\ UNCHANGED <<holdW, holdR>>

UnlockUpdate(c) ==
  /\ op[c] = "unlock" /\ pc[c] = "update"
  /\ IF UnlockUpdateFilter(rec, c)
       THEN rec' = UnlockSet(rec, c) /\ Ended(c, "ok")
       ELSE UNCHANGED rec /\ Ended(c, "NotHeld")
  /\ UNCHANGED <<holdW, holdR>>

\* ------------------------------------------------------------ rLock()
CallRLock(c) ==
  /\ Begin(c, "rLock", "update", EmptyWriter, FALSE)
  /\ UNCHANGED <<rec, holdW, holdR>>

RLockUpdate(c) ==
  /\ op[c] = "rLock" /\ pc[c] = "update"
  /\ IF RLockFilter(rec, c)
       THEN /\ rec' = RLockSet(rec, c)
            /\ Acquired(c, c \in Elems(rec.readers))
            /\ holdR' = [holdR EXCEPT ![c] = TRUE]
       ELSE /\ Goto(c, IF rec.exists THEN "sleep" ELSE "insert")
            /\ UNCHANGED <<rec, holdR>>
  /\ UNCHANGED holdW

RLockInsert(c) ==
  /\ op[c] = "rLock" /\ pc[c] = "insert"
  /\ IF rec.exists
       THEN /\ Goto(c, "sleep")
            /\ UNCHANGED <<rec, holdR>>
       ELSE /\ rec' = RLockSet(NoRecord, c)
            /\ Acquired(c, FALSE)
            /\ holdR' = [holdR EXCEPT ![c] = TRUE]
  /\ UNCHANGED holdW

\* ---------------------------------------------------------- rUnlock()
CallRUnlock(c) ==
  /\ Begin(c, "rUnlock", "delete", EmptyWriter, FALSE)
  /\ holdR' = [holdR EXCEPT ![c] = FALSE]
  /\ UNCHANGED <<rec, holdW>>

RUnlockDelete(c) ==
  /\ op[c] = "rUnlock" /\ pc[c] = "delete"
  /\ IF RUnlockDeleteFilter(rec, c)
       THEN rec' = NoRecord /\ Ended(c, "ok")
       ELSE Goto(c, "update") /\ UNCHANGED rec
  /\ UNCHANGED <<holdW, holdR>>

RUnlockUpdate(c) ==
  /\ op[c] = "rUnlock" /\ pc[c] = "update"
  /\ IF RUnlockUpdateFilter(rec, c)
       THEN rec' = RUnlockPull(rec, c) /\ Ended(c, "ok")
       ELSE UNCHANGED rec /\ Ended(c, "NotHeld")
  /\ UNCHANGED <<holdW, holdR>>

\* ------------------------------------------- a store operation fails
\* a catch that treats every error of the store as "try again"
StoreFailsRetried(c) ==
  /\ pc[c] \in {"update", "insert", "delete", "find"}
  /\ IF op[c] \in {"lock", "rLock"} THEN Goto(c, "sleep")
                                     ELSE Ended(c, "StoreError")
  /\ UNCHANGED <<rec, holdW, holdR>>

\* the driver rejects with an error other than E11000; nothing was written
StoreFails(c) ==
  /\ pc[c] \in {"update", "insert", "delete", "find"}
  /\ Ended(c, "StoreError")
  /\ UNCHANGED <<rec, holdW, holdR>>

\* ---------------------------------------------- tryOverrideLockWriter()
\* the filter {lockID} alone: any writer is replaced
OverrideFilterAnyWriter(r, o) == r.exists

OverrideFilter(r, o) ==
  r.exists /\ (emptyWriterQuery(r) \/ r.writer = o)

\* $set: {writer: clientID, readers: []}, as lock() has it
OverrideSetClearsReaders(r, c) == MongoLock(c, <<>>)

\* $set: {writer: clientID}; readers are left as they are
OverrideSet(r, c) == MongoLock(c, r.readers)

\* $setOnInsert seeding readers with the client
OverrideInsertSeedsReader(c) == MongoLock(c, <<c>>)

\* the document an upsert creates: $set plus $setOnInsert: {readers: []}
OverrideInsertDoc(c) == MongoLock(c, <<>>)

\* c becomes the writer; the writer it replaced has lost the role
Overridden(c) ==
  [d \in Clients |->
     IF d = c THEN "yes"
     ELSE IF rec.exists /\ rec.writer = d /\ holdW[d] = "yes" THEN "lost"
     ELSE holdW[d]]

\* a conditional override without its return true
OverrideDoneVoid(c) == Ended(c, "ok")

\* tryOverrideLockWriter returns; a conditional override returns true
OverrideDone(c) ==
  Ended(c, IF op[c] = "conditionalOverride" THEN "true" ELSE "ok")

\* a catch without the case for DuplicateKeyErrorCode: E11000 is
\* reported like any other error of the store
OverrideThrowUnclassified(c, e) ==
  Ended(c, IF e = "WriterSwitched" THEN "StoreError" ELSE e)

\* a conditional override without its catch
OverrideThrowUncaught(c, e) == Ended(c, e)

\* tryOverrideLockWriter throws e; a conditional override catches
\* WriterSwitched and sleeps, and rethrows everything else
OverrideThrow(c, e) ==
  IF op[c] = "conditionalOverride" /\ e = "WriterSwitched"
    THEN Goto(c, "sleep")
    ELSE Ended(c, e)

CallTryOverride(c, o, u) ==
  /\ Begin(c, "tryOverride", "update", o, u)
  /\ UNCHANGED <<rec, holdW, holdR>>

\* updateOne(..., {upsert: true}), as lock() has it
OverrideUpdateAlwaysUpserts(c) ==
  /\ op[c] \in {"tryOverride", "conditionalOverride"} /\ pc[c] = "update"
  /\ IF OverrideFilter(rec, old[c])
       THEN /\ rec' = OverrideSet(rec, c)
            /\ holdW' = Overridden(c)
            /\ OverrideDone(c)
       ELSE /\ IF rec.exists
                 THEN OverrideThrow(c, "WriterSwitched")
                 ELSE Goto(c, "insert")
            /\ UNCHANGED <<rec, holdW>>
  /\ UNCHANGED holdR

\* updateOne(..., {upsert: upsert}) of tryOverrideLockWriter
OverrideUpdate(c) ==
  /\ op[c] \in {"tryOverride", "conditionalOverride"} /\ pc[c] = "update"
  /\ IF OverrideFilter(rec, old[c])
       THEN /\ rec' = OverrideSet(rec, c)
            /\ holdW' = Overridden(c)
            /\ OverrideDone(c)
       ELSE /\ IF ups[c]
                 THEN IF rec.exists
                        THEN OverrideThrow(c, "WriterSwitched")
                        ELSE Goto(c, "insert")
                 ELSE OverrideThrow(c, "LockNotFound")
            /\ UNCHANGED <<rec, holdW>>
  /\ UNCHANGED holdR

\* a store whose upsert on no document reports neither a match nor an
\* insert: the call falls through to "lock not found, upsert failed"
OverrideInsertWithoutEffect(c) ==
  /\ op[c] \in {"tryOverride", "conditionalOverride"} /\ pc[c] = "insert"
  /\ IF rec.exists
       THEN OverrideThrow(c, "WriterSwitched")
       ELSE OverrideThrow(c, "LockNotFoundUpsertFailed")
  /\ UNCHANGED <<rec, holdW, holdR>>

OverrideInsert(c) ==
  /\ op[c] \in {"tryOverride", "conditionalOverride"} /\ pc[c] = "insert"
  /\ IF rec.exists
       THEN /\ OverrideThrow(c, "WriterSwitched")
            /\ UNCHANGED <<rec, holdW>>
       ELSE /\ rec' = OverrideInsertDoc(c)
            /\ holdW' = Overridden(c)
            /\ OverrideDone(c)
  /\ UNCHANGED holdR

\* -------------------------------------- conditionalOverrideLockWriter()
CallConditionalOverride(c, u) ==
  /\ Begin(c, "conditionalOverride", "find", EmptyWriter, u)
  /\ UNCHANGED <<rec, holdW, holdR>>

\* the loop without its if (!upsert) return false
CondFindAlwaysOverrides(c) ==
  /\ op[c] = "conditionalOverride" /\ pc[c] = "find"
  /\ IF ~(elapsed[c] < Timeout)
       THEN Ended(c, "TimeoutExceeded")
       ELSE IF ~rec.exists
              THEN /\ pc' = [pc EXCEPT ![c] = "update"]
                   /\ old' = [old EXCEPT ![c] = EmptyWriter]
                   /\ UNCHANGED <<op, result, ups, elapsed, reentry>>
              ELSE /\ pc' = [pc EXCEPT ![c] = "pred"]
                   /\ old' = [old EXCEPT ![c] = rec.writer]
                   /\ UNCHANGED <<op, result, ups, elapsed, reentry>>
  /\ UNCHANGED <<rec, holdW, holdR>>

\* the loop asking the predicate about a missing record's writer
CondFindAsksPredicate(c) ==
  /\ op[c] = "conditionalOverride" /\ pc[c] = "find"
  /\ IF ~(elapsed[c] < Timeout)
       THEN Ended(c, "TimeoutExceeded")
       ELSE IF ~rec.exists /\ ~ups[c]
              THEN Ended(c, "false")
              ELSE /\ pc' = [pc EXCEPT ![c] = "pred"]
                   /\ old' = [old EXCEPT ![c] = rec.writer]
                   /\ UNCHANGED <<op, result, ups, elapsed, reentry>>
  /\ UNCHANGED <<rec, holdW, holdR>>

\* the loop test, then findOne({lockID})
CondFind(c) ==
  /\ op[c] = "conditionalOverride" /\ pc[c] = "find"
  /\ IF ~(elapsed[c] < Timeout)
       THEN Ended(c, "TimeoutExceeded")
       ELSE IF ~rec.exists
              THEN IF ~ups[c]
                     THEN Ended(c, "false")
                     ELSE /\ pc' = [pc EXCEPT ![c] = "update"]
                          /\ old' = [old EXCEPT ![c] = EmptyWriter]
                          /\ UNCHANGED <<op, result, ups, elapsed, reentry>>
              ELSE /\ pc' = [pc EXCEPT ![c] = "pred"]
                   /\ old' = [old EXCEPT ![c] = rec.writer]
                   /\ UNCHANGED <<op, result, ups, elapsed, reentry>>
  /\ UNCHANGED <<rec, holdW, holdR>>

\* await conditional(mongoLock.writer, clientID): any answer
CondPredicate(c) ==
  /\ op[c] = "conditionalOverride" /\ pc[c] = "pred"
  /\ \E b \in BOOLEAN :
       IF b THEN Goto(c, "update") ELSE Ended(c, "false")
  /\ UNCHANGED <<rec, holdW, holdR>>

\* await conditional(mongoLock.writer, clientID) with the predicate
\* async (oldWriter, newWriter) => oldWriter < newWriter
CondPredicateLess(c) ==
  /\ op[c] = "conditionalOverride" /\ pc[c] = "pred"
  /\ IF old[c] < c THEN Goto(c, "update") ELSE Ended(c, "false")
  /\ UNCHANGED <<rec, holdW, holdR>>

\* start = Date.now() taken inside the loop: every iteration starts anew
CondWakeRestartsClock(c) ==
  /\ op[c] = "conditionalOverride" /\ pc[c] = "sleep"
  /\ pc' = [pc EXCEPT ![c] = "find"]
  /\ old' = [old EXCEPT ![c] = EmptyWriter]
  /\ UNCHANGED <<op, result, ups, elapsed, reentry>>
  /\ UNCHANGED <<rec, holdW, holdR>>

\* timeoutPromise(sleepTime) resolves after WriterSwitched; continue
CondWake(c) ==
  /\ op[c] = "conditionalOverride" /\ pc[c] = "sleep"
  /\ pc' = [pc EXCEPT ![c] = "find"]
  /\ old' = [old EXCEPT ![c] = EmptyWriter]
  /\ elapsed' = [elapsed EXCEPT ![c] = elapsed[c] + 1]
  /\ UNCHANGED <<op, result, ups, reentry>>
  /\ UNCHANGED <<rec, holdW, holdR>>

\* ------------------------------------------------- next-state relation
BasicStep(c) ==
  \/ CallLock(c)
  \/ LockUpdate(c)
  \/ LockInsert(c)
  \/ Wake(c)
  \/ CallUnlock(c)
  \/ UnlockDelete(c)
  \/ UnlockUpdate(c)
  \/ CallRLock(c)
  \/ RLockUpdate(c)
  \/ RLockInsert(c)
  \/ CallRUnlock(c)
  \/ RUnlockDelete(c)
  \/ RUnlockUpdate(c)

OverrideStep(c) ==
  \/ \E o \in {EmptyWriter} \cup Clients, u \in BOOLEAN : CallTryOverride(c, o, u)
  \/ OverrideUpdate(c)
  \/ OverrideInsert(c)
  \/ \E u \in BOOLEAN : CallConditionalOverride(c, u)
  \/ CondFind(c)
  \/ CondPredicate(c)
  \/ CondWake(c)

\* lock, unlock, rLock and rUnlock only, every client
NextBasic == \E c \in Clients : BasicStep(c)

SpecBasic == Init /\ [][NextBasic]_vars

\* The six public operations.  Two clients contend: with three the state
\* space (over 10^8 states) is beyond exhaustive search.
Contenders == Clients \cap {1, 2}

Next == \E c \in Contenders : BasicStep(c) \/ OverrideStep(c)

Spec == Init /\ [][Next]_vars

\* The six public operations where every conditional override is given
\* the predicate oldWriter < newWriter.
OverrideStepLess(c) ==
  \/ \E o \in {EmptyWriter} \cup Clients, u \in BOOLEAN : CallTryOverride(c, o, u)
  \/ OverrideUpdate(c)
  \/ OverrideInsert(c)
  \/ \E u \in BOOLEAN : CallConditionalOverride(c, u)
  \/ CondFind(c)
  \/ CondPredicateLess(c)
  \/ CondWake(c)

NextLess == \E c \in Contenders : BasicStep(c) \/ OverrideStepLess(c)

SpecLess == Init /\ [][NextLess]_vars

\* Clients whose only operation is conditionalOverrideLockWriter, with
\* either upsert value and the predicate oldWriter < newWriter.
ConditionalStepLess(c) ==
  \/ \E u \in BOOLEAN : CallConditionalOverride(c, u)
  \/ CondFind(c)
  \/ CondPredicateLess(c)
  \/ OverrideUpdate(c)
  \/ OverrideInsert(c)
  \/ CondWake(c)

NextConditionalLess == \E c \in Clients : ConditionalStepLess(c)

SpecConditionalLess == Init /\ [][NextConditionalLess]_vars

\* the four basic operations against a store whose operations may fail
NextFaulty == \E c \in Clients : BasicStep(c) \/ StoreFails(c)

SpecFaulty == Init /\ [][NextFaulty]_vars

\* The store answers every request and every timer fires: a pending
\* updateOne of lock()/rLock() completes and a running
\* timeoutPromise(sleepTime) resolves.  Nothing obliges a client to call
\* or to release.
RetryFairness ==
  \A c \in Clients :
    /\ WF_vars(LockUpdate(c)) /\ WF_vars(LockInsert(c))
    /\ WF_vars(RLockUpdate(c)) /\ WF_vars(RLockInsert(c))
    /\ WF_vars(Wake(c))

SpecBasicFair == SpecBasic /\ RetryFairness

\* The six public operations where the store answers every request of
\* lock() and rLock() and their timers fire.
SpecRetryFair == Spec /\ RetryFairness

\* The six operations where the store answers every request of an
\* override, the predicate resolves and the timer of the loop fires.
OverrideFairness ==
  \A c \in Contenders :
    /\ WF_vars(OverrideUpdate(c)) /\ WF_vars(OverrideInsert(c))
    /\ WF_vars(CondFind(c)) /\ WF_vars(CondPredicate(c))
    /\ WF_vars(CondWake(c))

SpecFair == Spec /\ OverrideFairness

\* The four basic operations of instances that are all configured with
\* expiresAt, on a collection with the index {expiresAt: 1} and
\* expireAfterSeconds: 0.  Every record then carries the expiresAt of the
\* instance that created or took it, and the store deletes the record
\* once that time has passed; when that is, is left open.
StoreExpires ==
  /\ rec.exists
  /\ rec' = NoRecord
  /\ UNCHANGED <<pc, op, result, holdW, holdR, old, ups, elapsed, reentry>>

NextExpiry == NextBasic \/ StoreExpires

ExpiryFairness == RetryFairness /\ WF_vars(StoreExpires)

SpecExpiry == Init /\ [][NextExpiry]_vars /\ ExpiryFairness

\* The four basic operations from the moment a free record has been left
\* behind: client 1's lock() or rLock() found no record and its insert is
\* pending, and since then other clients created the record by rLock()
\* and released it by overlapping rUnlock() calls that both took the
\* $pull path, so that {writer: "", readers: []} is in the store.  The
\* other clients of the model have each returned from such an rUnlock().
InitLeftBehind ==
  /\ rec = MongoLock(EmptyWriter, <<>>)
  /\ pc = [c \in Clients |-> IF c = 1 THEN "insert" ELSE "idle"]
  /\ \E m \in {"lock", "rLock"} :
       op = [c \in Clients |-> IF c = 1 THEN m ELSE "rUnlock"]
  /\ result = [c \in Clients |-> IF c = 1 THEN "none" ELSE "ok"]
  /\ holdW = [c \in Clients |-> "no"]
  /\ holdR = [c \in Clients |-> FALSE]
  /\ old = [c \in Clients |-> EmptyWriter]
  /\ ups = [c \in Clients |-> FALSE]
  /\ elapsed = [c \in Clients |-> 0]
  /\ reentry = [c \in Clients |-> FALSE]

SpecLeftBehind == InitLeftBehind /\ [][NextBasic]_vars

\* A schedule of the four basic operations in which one client, Starved,
\* is out of luck: every updateOne of its lock() reaches the store while
\* the record is held or missing, and every insert after another client
\* has created the record.  The other clients call what they like, except
\* that none waits for a lock it holds itself; each of them that holds
\* goes on to release, and they keep asking for the lock.
Starved == NumClients

Others == Clients \ {Starved}

StarvedUpdate == LockUpdate(Starved) /\ ~LockFilter(rec, Starved)

StarvedInsert == LockInsert(Starved) /\ rec.exists

OtherAcquire(c) ==
  \/ ~holdR[c] /\ CallLock(c)
  \/ holdW[c] # "yes" /\ CallRLock(c)

OtherRelease(c) ==
  \/ holdW[c] = "yes" /\ CallUnlock(c)
  \/ holdR[c] /\ CallRUnlock(c)

OtherStep(c) ==
  \/ OtherAcquire(c)
  \/ LockUpdate(c) \/ LockInsert(c) \/ Wake(c)
  \/ CallUnlock(c) \/ UnlockDelete(c) \/ UnlockUpdate(c)
  \/ RLockUpdate(c) \/ RLockInsert(c)
  \/ CallRUnlock(c) \/ RUnlockDelete(c) \/ RUnlockUpdate(c)

NextStarved ==
  \/ CallLock(Starved)
  \/ StarvedUpdate
  \/ StarvedInsert
  \/ Wake(Starved)
  \/ \E c \in Others : OtherStep(c)

StarvedFairness ==
  /\ WF_vars(CallLock(Starved)) /\ WF_vars(Wake(Starved))
  /\ SF_vars(StarvedUpdate) /\ SF_vars(StarvedInsert)
  /\ SF_vars(\E c \in Others : OtherAcquire(c))
  /\ \A c \in Others :
       /\ SF_vars(OtherRelease(c))
       /\ WF_vars(LockUpdate(c)) /\ WF_vars(LockInsert(c)) /\ WF_vars(Wake(c))
       /\ WF_vars(RLockUpdate(c)) /\ WF_vars(RLockInsert(c))
       /\ WF_vars(UnlockDelete(c)) /\ WF_vars(UnlockUpdate(c))
       /\ WF_vars(RUnlockDelete(c)) /\ WF_vars(RUnlockUpdate(c))

SpecStarved == Init /\ [][NextStarved]_vars /\ StarvedFairness

\* ==================================================================
\* Properties
\* ==================================================================

\* C1 (SpecBasic).  With lock, unlock, rLock and rUnlock only: while a
\* client holds the write lock no other client holds the write lock and no
\* client holds a read lock; while a client holds a read lock no client
\* holds the write lock.  A client holds a lock from the return of its
\* lock()/rLock() until its call of unlock()/rUnlock().
ReadersWritersExclusion ==
  \A a \in Clients :
    holdW[a] = "yes" =>
      /\ \A b \in Clients \ {a} : holdW[b] = "no"
      /\ \A b \in Clients : ~holdR[b]

\* a client holds the write lock while another sleeps in rLock()
WriterHoldsWhileReaderWaits ==
  \E a \in Clients, b \in Clients :
    /\ a # b
    /\ holdW[a] = "yes"
    /\ op[b] = "rLock" /\ pc[b] = "sleep"

\* C2, as stated (Spec).  At most one client at a time observes itself
\* holding the writer role (lock()/override succeeded, unlock() not yet
\* called), whatever the operations are.
AtMostOneWriterObserved ==
  \A a \in Clients, b \in Clients :
    (a # b /\ holdW[a] # "no") => holdW[b] = "no"

\* C2, amended (Spec).  Among the clients that observe themselves as
\* writer, at most one has not had the role taken by another client's
\* override, and that one is the writer of the record.
OneWriterNotOverridden ==
  /\ \A a \in Clients : holdW[a] = "yes" => (rec.exists /\ rec.writer = a)
  /\ \A a \in Clients, b \in Clients :
       (a # b /\ holdW[a] = "yes") => holdW[b] # "yes"

\* the overrider and the client it overrode both observe the role
OverriddenWriterStillObserves ==
  \E a \in Clients, b \in Clients :
    /\ holdW[a] = "lost" /\ holdW[b] = "yes"
    /\ rec.exists /\ rec.writer = b

\* C3, as stated (Spec).  In every reachable state a non-empty writer
\* implies empty readers.
WriterExcludesReaders ==
  rec.exists => (rec.writer # EmptyWriter => Len(rec.readers) = 0)

\* C3, amended (Spec).  Writer and readers become occupied together only
\* by the update of tryOverrideLockWriter (direct or from the conditional
\* override); no step of lock, unlock, rLock or rUnlock does it.
OnlyOverrideMixesWriterAndReaders ==
  [][(WriterExcludesReaders /\ ~WriterExcludesReaders')
       => \E c \in Clients : OverrideUpdate(c)]_vars

\* an override has taken a record that readers hold
WriterOverReaders ==
  /\ rec.exists /\ rec.writer # EmptyWriter /\ Len(rec.readers) > 0
  /\ \E c \in Clients : c = rec.writer /\ result[c] \in {"ok", "true"}
                        /\ op[c] \in {"tryOverride", "conditionalOverride"}

\* C4, as stated (SpecBasic).  An rLock() attempt made while the record
\* is absent or its writer is empty acquires: it does not end in the
\* sleep before a retry.
RLockAttemptAcquiresWhenNoWriter ==
  [][\A c \in Clients :
       ((RLockUpdate(c) \/ RLockInsert(c)) /\ (~rec.exists \/ emptyWriterQuery(rec)))
         => pc'[c] # "sleep"]_vars

\* C4, amended (SpecBasic).  An rLock() update that finds the record with
\* an empty writer acquires at once whatever readers there are, adding
\* only clientID; one that finds no record goes on to create it, and the
\* creation acquires with readers = [clientID] unless another client
\* created the record first.
ReadersDoNotBlockReaders ==
  [][\A c \in Clients :
       /\ (RLockUpdate(c) /\ rec.exists /\ emptyWriterQuery(rec))
            => /\ pc'[c] = "idle" /\ result'[c] = "ok" /\ holdR'[c]
               /\ rec'.exists /\ rec'.writer = EmptyWriter
               /\ Elems(rec'.readers) = Elems(rec.readers) \cup {c}
       /\ (RLockUpdate(c) /\ ~rec.exists) => (pc'[c] = "insert" /\ rec' = rec)
       /\ (RLockInsert(c) /\ ~rec.exists)
            => /\ pc'[c] = "idle" /\ result'[c] = "ok" /\ holdR'[c]
               /\ rec' = MongoLock(EmptyWriter, <<c>>)]_vars

\* every client is a reader at the same time, each by its own rLock()
AllClientsRead ==
  /\ rec.exists /\ Elems(rec.readers) = Clients
  /\ \A c \in Clients : holdR[c] /\ op[c] = "rLock" /\ result[c] = "ok"

\* C5 (SpecBasic).  A lock() by the client that holds the write lock is
\* never made to wait (its first update is its last), and that update
\* returns with the record as it was.
LockIsReentrant ==
  /\ [](\A c \in Clients :
          (holdW[c] = "yes" /\ op[c] = "lock" /\ pc[c] # "idle")
            => (pc[c] = "update" /\ rec = MongoLock(c, <<>>)))
  /\ [][\A c \in Clients :
          (LockUpdate(c) /\ rec = MongoLock(c, <<>>))
            => (rec' = rec /\ pc'[c] = "idle" /\ result'[c] = "ok")]_vars

\* a holder's second lock() has returned
LockReentered ==
  \E c \in Clients :
    /\ op[c] = "lock" /\ result[c] = "ok" /\ reentry[c]
    /\ rec = MongoLock(c, <<>>)

\* C6 (SpecBasic).  An rLock() by a client that holds a read lock is
\* never made to wait, and its update returns with the record as it was:
\* clientID is not added a second time and the other readers stay.
RLockIsReentrant ==
  /\ [](\A c \in Clients :
          (holdR[c] /\ op[c] = "rLock" /\ pc[c] # "idle")
            => (pc[c] = "update" /\ rec.exists /\ emptyWriterQuery(rec)
                /\ c \in Elems(rec.readers)))
  /\ [][\A c \in Clients :
          (RLockUpdate(c) /\ rec.exists /\ emptyWriterQuery(rec)
             /\ c \in Elems(rec.readers))
            => (rec' = rec /\ pc'[c] = "idle" /\ result'[c] = "ok")]_vars

\* a reader's second rLock() has returned, beside another reader
RLockReentered ==
  \E c \in Clients :
    /\ op[c] = "rLock" /\ result[c] = "ok" /\ reentry[c]
    /\ rec.exists /\ Len(rec.readers) > 1 /\ c \in Elems(rec.readers)

\* C7 (Spec).  Neither store operation of an unlock() by a client that is
\* not the record's writer changes the store, and the call ends NotHeld.
UnlockByNonHolderFails ==
  [][\A c \in Clients :
       ((UnlockDelete(c) \/ UnlockUpdate(c)) /\ ~(rec.exists /\ rec.writer = c))
         => /\ rec' = rec
            /\ UnlockDelete(c) => pc'[c] = "update"
            /\ UnlockUpdate(c) => (pc'[c] = "idle" /\ result'[c] = "NotHeld")]_vars

\* unlock() ended NotHeld and the writer of the record is still there
UnlockRefusedWriterKept ==
  \E c \in Clients :
    /\ op[c] = "unlock" /\ result[c] = "NotHeld"
    /\ rec.exists /\ rec.writer \in Clients \ {c}
    /\ holdW[rec.writer] = "yes"

\* C8 (Spec).  Neither store operation of an rUnlock() by a client that
\* is not in readers changes the store, and the call ends NotHeld.
RUnlockByNonReaderFails ==
  [][\A c \in Clients :
       ((RUnlockDelete(c) \/ RUnlockUpdate(c))
          /\ ~(rec.exists /\ c \in Elems(rec.readers)))
         => /\ rec' = rec
            /\ RUnlockDelete(c) => pc'[c] = "update"
            /\ RUnlockUpdate(c) => (pc'[c] = "idle" /\ result'[c] = "NotHeld")]_vars

\* rUnlock() ended NotHeld and the only reader of the record is still there
RUnlockRefusedReaderKept ==
  \E c \in Clients :
    /\ op[c] = "rUnlock" /\ result[c] = "NotHeld"
    /\ rec.exists /\ Len(rec.readers) = 1 /\ c \notin Elems(rec.readers)
    /\ \A d \in Elems(rec.readers) : holdR[d]

\* C9, as stated (SpecBasic).  Once every release has returned and no
\* client holds the lock or is inside a call, no record exists.
FullReleaseDeletesRecord ==
  (\A c \in Clients : pc[c] = "idle" /\ holdW[c] = "no" /\ ~holdR[c])
    => ~rec.exists

\* C10 (Spec).  An rUnlock() by a reader that is not the only reader
\* deletes nothing, and its update removes clientID alone: the record
\* stays, with the other readers in their order and the writer as it was.
PartialReaderRelease ==
  [][\A c \in Clients :
       /\ (RUnlockDelete(c) /\ rec.exists /\ c \in Elems(rec.readers)
             /\ Len(rec.readers) > 1)
            => (rec' = rec /\ pc'[c] = "update")
       /\ (RUnlockUpdate(c) /\ rec.exists /\ c \in Elems(rec.readers))
            => /\ pc'[c] = "idle" /\ result'[c] = "ok"
               /\ rec'.exists /\ rec'.writer = rec.writer
               /\ rec'.readers = SelectSeq(rec.readers, LAMBDA d : d # c)
               /\ Len(rec'.readers) = Len(rec.readers) - 1]_vars

\* one reader has left and the other still holds the record
ReaderLeftOtherStays ==
  \E c \in Clients :
    /\ op[c] = "rUnlock" /\ result[c] = "ok"
    /\ rec.exists /\ Len(rec.readers) > 0 /\ c \notin Elems(rec.readers)
    /\ \A d \in Elems(rec.readers) : holdR[d]

\* C11 (SpecBasicFair).  A lock() that is under way while the resource is
\* free (no record, or a record with empty writer and no readers: the
\* holder has released) eventually returns with the record
\* {writer: c, readers: []}, unless another client acquires first.
WaitingLockAcquires ==
  \A c \in Clients :
    (/\ op[c] = "lock" /\ pc[c] # "idle"
     /\ (~rec.exists \/ (emptyWriterQuery(rec) /\ emptyReadersQuery(rec))))
    ~> (\/ /\ op[c] = "lock" /\ pc[c] = "idle" /\ result[c] = "ok"
           /\ rec = MongoLock(c, <<>>)
        \/ /\ rec.exists
           /\ (rec.writer \notin {EmptyWriter, c} \/ ~emptyReadersQuery(rec)))

\* client 2 sleeps in lock() and client 1, the writer, has released
WaiterSeesRelease ==
  /\ op[2] = "lock" /\ pc[2] = "sleep"
  /\ op[1] = "unlock" /\ result[1] = "ok"
  /\ ~rec.exists

\* C12 (SpecBasicFair), as stated.  An rLock() that is under way while no
\* writer is on the record (the writer has released) eventually returns
\* with c in readers and writer empty, unless a client becomes writer,
\* whatever other readers come and go.
WaitingRLockAcquires ==
  \A c \in Clients :
    (/\ op[c] = "rLock" /\ pc[c] # "idle"
     /\ (~rec.exists \/ emptyWriterQuery(rec)))
    ~> (\/ /\ op[c] = "rLock" /\ pc[c] = "idle" /\ result[c] = "ok"
           /\ rec.exists /\ emptyWriterQuery(rec) /\ c \in Elems(rec.readers)
        \/ rec.exists /\ ~emptyWriterQuery(rec))

\* C12 (SpecBasicFair), amended.  The same, unless a client becomes writer
\* or another client creates the record between the query and the insert
\* of c's upsert (c then sleeps and tries again).
WaitingRLockAcquiresUnlessRaced ==
  \A c \in Clients :
    (/\ op[c] = "rLock" /\ pc[c] # "idle"
     /\ (~rec.exists \/ emptyWriterQuery(rec)))
    ~> (\/ /\ op[c] = "rLock" /\ pc[c] = "idle" /\ result[c] = "ok"
           /\ rec.exists /\ emptyWriterQuery(rec) /\ c \in Elems(rec.readers)
        \/ rec.exists /\ ~emptyWriterQuery(rec)
        \/ op[c] = "rLock" /\ pc[c] = "insert" /\ rec.exists)

\* client 2 sleeps in rLock() and client 1, the writer, has released
ReaderWaiterSeesRelease ==
  /\ op[2] = "rLock" /\ pc[2] = "sleep"
  /\ op[1] = "unlock" /\ result[1] = "ok"
  /\ ~rec.exists

\* C13 (SpecBasic).  No lock() or rLock() call ends with anything but
\* success; and the insert half of a lock() upsert either finds no record,
\* creates {writer: c, readers: []} and returns as the only writer, or
\* finds the record another client created meanwhile, leaves it as it is
\* and goes to sleep to try again.
CreationRaceNeverSurfaced ==
  /\ [](\A c \in Clients :
          op[c] \in {"lock", "rLock"} /\ pc[c] = "idle" => result[c] = "ok")
  /\ [][\A c \in Clients :
          op[c] = "lock" /\ pc[c] = "insert" /\ pc'[c] # "insert" =>
            IF rec.exists
              THEN rec' = rec /\ pc'[c] = "sleep" /\ result'[c] = "none"
              ELSE /\ rec' = MongoLock(c, <<>>)
                   /\ pc'[c] = "idle" /\ result'[c] = "ok"
                   /\ \A d \in Clients \ {c} : holdW'[d] # "yes"]_vars

\* client 1 created the record while client 2's upsert, which had found
\* none, is about to insert
RacerMeetsCreatedRecord ==
  /\ op[1] = "lock" /\ result[1] = "ok" /\ rec = MongoLock(1, <<>>)
  /\ op[2] = "lock" /\ pc[2] = "insert"

\* C14 (SpecBasic).  With lock, unlock, rLock and rUnlock only, a holder
\* that has not called its release is on the record: a writer as
\* {writer: c, readers: []}, a reader in readers under an empty writer.
\* While a client holds, no step makes another client's lock() return, and
\* while a writer holds, no step makes another client's rLock() return.
HolderStaysUntilRelease ==
  /\ [](\A c \in Clients :
          /\ holdW[c] = "yes" => rec = MongoLock(c, <<>>)
          /\ holdR[c] =>
               rec.exists /\ emptyWriterQuery(rec) /\ c \in Elems(rec.readers))
  /\ [][\A c \in Clients, d \in Clients :
          /\ d # c /\ pc[d] # "idle" /\ pc'[d] = "idle"
          /\ \/ (holdW[c] = "yes" \/ holdR[c]) /\ op[d] = "lock"
             \/ holdW[c] = "yes" /\ op[d] = "rLock"
          => FALSE]_vars

\* client 1 reads and has not released; client 2's lock() has found the
\* record busy and sleeps
WriterWaitsOnReader ==
  /\ holdR[1] /\ pc[1] = "idle"
  /\ op[2] = "lock" /\ pc[2] = "sleep"

\* C15 (SpecStarved).  Every run of the schedule SpecStarved is a run of
\* the four basic operations that is fair to every client's retry loop
\* (SpecBasicFair); in it the other clients hold the lock infinitely
\* often and their releases return infinitely often, while the starved
\* client's one lock() call goes to sleep infinitely often and never
\* returns.  SpecStarved has runs, so such an execution exists.
StarvationRun ==
  /\ SpecBasicFair
  /\ []<>(\E c \in Others : holdW[c] = "yes" \/ holdR[c])
  /\ []<>(\E c \in Others :
            op[c] \in {"unlock", "rUnlock"} /\ pc[c] = "idle" /\ result[c] = "ok")
  /\ <>(op[Starved] = "lock")
  /\ [](op[Starved] = "lock" => pc[Starved] # "idle")
  /\ []<>(pc[Starved] = "sleep")

\* the starved client sleeps once more while the record, which another
\* client held and released, is gone
StarvedSleepsWhileFree ==
  /\ op[Starved] = "lock" /\ pc[Starved] = "sleep"
  /\ ~rec.exists
  /\ \E c \in Others : op[c] = "unlock" /\ result[c] = "ok"

\* C16 (Spec).  The updateOne of tryOverrideLockWriter(oldWriter, upsert)
\* that finds a record whose writer is empty or oldWriter ends the call
\* with success in that one step, for either upsert, and the record after
\* it has writer = c and the readers it had.
OverrideMatchSetsWriterOnly ==
  [][\A c \in Clients :
       /\ op[c] = "tryOverride" /\ pc[c] = "update" /\ pc'[c] # "update"
       /\ rec.exists /\ (rec.writer = EmptyWriter \/ rec.writer = old[c])
       => /\ rec' = MongoLock(c, rec.readers)
          /\ pc'[c] = "idle" /\ result'[c] = "ok"]_vars

\* client 2 has overridden the writer of a record that client 1 reads
OverrodeOverReader ==
  /\ op[2] = "tryOverride" /\ pc[2] = "idle" /\ result[2] = "ok"
  /\ rec = MongoLock(2, <<1>>)

\* C17 (Spec), as stated.  A tryOverrideLockWriter(oldWriter, true) whose
\* updateOne found no record returns with success, having created
\* {writer: c, readers: []}.
OverrideUpsertOnAbsentSucceeds ==
  [][\A c \in Clients :
       op[c] = "tryOverride" /\ pc[c] = "insert" /\ pc'[c] # "insert"
       => result'[c] = "ok" /\ rec' = MongoLock(c, <<>>)]_vars

\* C17 (Spec), amended.  A tryOverrideLockWriter(oldWriter, true) whose
\* updateOne finds no record goes on to insert, for any oldWriter; the
\* insert creates {writer: c, readers: []} and the call succeeds, unless
\* another client has created the record meanwhile: then the call fails
\* with WriterSwitched and that record stays as it is.
OverrideUpsertCreatesUnlessRaced ==
  [][\A c \in Clients :
       /\ op[c] = "tryOverride" /\ ups[c] /\ ~rec.exists
          /\ pc[c] = "update" /\ pc'[c] # "update"
          => pc'[c] = "insert" /\ result'[c] = "none" /\ rec' = rec
       /\ op[c] = "tryOverride" /\ pc[c] = "insert" /\ pc'[c] # "insert"
          => /\ pc'[c] = "idle"
             /\ IF rec.exists
                  THEN result'[c] = "WriterSwitched" /\ rec' = rec
                  ELSE result'[c] = "ok" /\ rec' = MongoLock(c, <<>>)]_vars

\* client 2's tryOverrideLockWriter("1", true) has found no record and is
\* about to insert while there is still none
OverrideAboutToCreate ==
  /\ op[2] = "tryOverride" /\ pc[2] = "insert" /\ old[2] = 1
  /\ ~rec.exists

\* C18 (Spec).  The updateOne of tryOverrideLockWriter(oldWriter, false)
\* that finds no record, or a record whose writer is neither empty nor
\* oldWriter, ends the call with LockNotFound and leaves the store as it
\* is; such a call never reaches an insert.
OverrideWithoutUpsertNotFound ==
  /\ [](\A c \in Clients :
          op[c] = "tryOverride" /\ pc[c] = "insert" => ups[c])
  /\ [][\A c \in Clients :
          /\ op[c] = "tryOverride" /\ ~ups[c]
          /\ pc[c] = "update" /\ pc'[c] # "update"
          /\ (~rec.exists \/ rec.writer \notin {EmptyWriter, old[c]})
          => /\ pc'[c] = "idle" /\ result'[c] = "LockNotFound"
             /\ rec' = rec]_vars

\* client 2's override without upsert was refused, and client 1 is still
\* the writer
OverrideRefusedNotFound ==
  /\ op[2] = "tryOverride" /\ result[2] = "LockNotFound"
  /\ rec = MongoLock(1, <<>>) /\ holdW[1] = "yes"

\* C19 (Spec).  The updateOne of tryOverrideLockWriter(oldWriter, true)
\* that finds a record whose writer is neither empty nor oldWriter ends
\* the call with WriterSwitched, which is neither LockNotFound nor the
\* error of a failed store operation, and leaves the record as it is.
OverrideUpsertWriterSwitched ==
  [][\A c \in Clients :
       /\ op[c] = "tryOverride" /\ ups[c]
       /\ pc[c] = "update" /\ pc'[c] # "update"
       /\ rec.exists /\ rec.writer \notin {EmptyWriter, old[c]}
       => /\ pc'[c] = "idle" /\ result'[c] = "WriterSwitched"
          /\ rec' = rec]_vars

\* client 2's override was refused with WriterSwitched, and client 1 is
\* still the writer
OverrideRefusedWriterSwitched ==
  /\ op[2] = "tryOverride" /\ result[2] = "WriterSwitched"
  /\ rec = MongoLock(1, <<>>) /\ holdW[1] = "yes"

\* C20 (SpecLess).  conditionalOverrideLockWriter with the predicate
\* oldWriter < newWriter: the findOne that meets a record hands its writer
\* w to the predicate; if w < c is false the call returns false and the
\* record stays as it is; if it is true the call goes on to the update,
\* and the update that meets the record still under writer w returns true
\* with writer = c and the readers kept, so the predicate is not asked
\* again.
ConditionalOverrideFollowsPredicate ==
  [][\A c \in Clients :
       op[c] = "conditionalOverride" =>
         /\ pc[c] = "find" /\ pc'[c] # "find" /\ elapsed[c] < Timeout
            /\ rec.exists
            => pc'[c] = "pred" /\ old'[c] = rec.writer /\ rec' = rec
         /\ pc[c] = "pred" /\ pc'[c] # "pred"
            => /\ rec' = rec
               /\ IF old[c] < c
                    THEN pc'[c] = "update" /\ old'[c] = old[c]
                    ELSE pc'[c] = "idle" /\ result'[c] = "false"
         /\ pc[c] = "update" /\ pc'[c] # "update"
            /\ rec.exists /\ rec.writer = old[c]
            => /\ pc'[c] = "idle" /\ result'[c] = "true"
               /\ rec' = MongoLock(c, rec.readers)]_vars

\* client 2's conditional override has returned true over writer 1, and
\* client 1's, which met writer 1 or 2, has returned false
HigherClientOverrode ==
  /\ op[2] = "conditionalOverride" /\ result[2] = "true"
  /\ op[1] = "conditionalOverride" /\ result[1] = "false"
  /\ rec.exists /\ rec.writer = 2 /\ holdW[1] = "lost"

\* C21 (Spec).  In conditionalOverrideLockWriter, for either upsert, the
\* write that reaches a record whose writer is by now another client than
\* the one the call read changes nothing and sends the call to sleep and
\* to read the record again.
StaleWriteIsRetried ==
  [][\A c \in Clients :
       /\ op[c] = "conditionalOverride"
       /\ pc[c] = "update" /\ pc'[c] # "update"
       /\ rec.exists /\ rec.writer \notin {EmptyWriter, old[c]}
       => rec' = rec /\ pc'[c] = "sleep"]_vars

\* C22 (Spec).  The findOne of conditionalOverrideLockWriter(predicate,
\* false) that finds no record ends the call with false in that step: the
\* predicate and the update are not reached, and there is still no record.
ConditionalWithoutUpsertOnAbsent ==
  [][\A c \in Clients :
       /\ op[c] = "conditionalOverride" /\ ~ups[c]
       /\ pc[c] = "find" /\ pc'[c] # "find" /\ elapsed[c] < Timeout
       /\ ~rec.exists
       => pc'[c] = "idle" /\ result'[c] = "false" /\ rec' = rec]_vars

\* client 2's conditional override has returned false, there is no record
\* and client 1 has never called anything
ConditionalFoundNothing ==
  /\ op[2] = "conditionalOverride" /\ result[2] = "false"
  /\ op[1] = "none" /\ ~rec.exists

\* C23 (Spec).  The findOne of conditionalOverrideLockWriter(predicate,
\* true) that finds no record goes straight to the update of
\* tryOverrideLockWriter("", true), not to the predicate; that update, on
\* no record, goes on to insert, and the insert, on no record, creates
\* {writer: c, readers: []} and the call returns true.
ConditionalUpsertOnAbsent ==
  [][\A c \in Clients :
       op[c] = "conditionalOverride" /\ ups[c] /\ ~rec.exists =>
         /\ pc[c] = "find" /\ pc'[c] # "find" /\ elapsed[c] < Timeout
            => pc'[c] = "update" /\ old'[c] = EmptyWriter /\ rec' = rec
         /\ pc[c] = "update" /\ pc'[c] # "update"
            => pc'[c] = "insert" /\ rec' = rec
         /\ pc[c] = "insert" /\ pc'[c] # "insert"
            => /\ pc'[c] = "idle" /\ result'[c] = "true"
               /\ rec' = MongoLock(c, <<>>)]_vars

\* client 2's conditional override, having found no record, is about to
\* insert while there is still none
ConditionalAboutToCreate ==
  /\ op[2] = "conditionalOverride" /\ pc[2] = "insert"
  /\ ~rec.exists

\* C24 (Spec).  The only step of a conditionalOverrideLockWriter call that
\* changes the record is the one with which it returns true; every other
\* step of the call, and so every call that ends otherwise, leaves the
\* store as it is.
ConditionalWritesOnlyWhenTrue ==
  [][\A c \in Clients :
       /\ op[c] = "conditionalOverride"
       /\ pc[c] # "idle" /\ pc'[c] # pc[c]
       /\ rec' # rec
       => pc'[c] = "idle" /\ result'[c] = "true"]_vars

\* client 2's conditional override has returned false, and client 1 is
\* still the writer
ConditionalDeclinedWriterKept ==
  /\ op[2] = "conditionalOverride" /\ result[2] = "false"
  /\ rec = MongoLock(1, <<>>) /\ holdW[1] = "yes"

\* C25 (SpecFair).  Every conditionalOverrideLockWriter call returns or
\* throws; the loop never starts an iteration once the timeout has
\* elapsed: the loop test then ends the call with TimeoutExceeded and the
\* store as it is.
ConditionalOverrideTerminates ==
  /\ \A c \in Clients :
       (op[c] = "conditionalOverride" /\ pc[c] # "idle") ~> (pc[c] = "idle")
  /\ [](\A c \in Clients : elapsed[c] <= Timeout)
  /\ [][\A c \in Clients :
          /\ op[c] = "conditionalOverride"
          /\ pc[c] = "find" /\ pc'[c] # "find" /\ ~(elapsed[c] < Timeout)
          => pc'[c] = "idle" /\ result'[c] = "TimeoutExceeded" /\ rec' = rec]_vars

\* client 2's conditional override has run out of time
ConditionalTimedOut ==
  op[2] = "conditionalOverride" /\ result[2] = "TimeoutExceeded"

\* C26 (Spec).  No conditionalOverrideLockWriter call ends with
\* WriterSwitched: the write of its tryOverrideLockWriter that meets the
\* uniqueness conflict (upsert, and a record that does not match or was
\* created meanwhile) changes nothing and sends the call to sleep, and
\* from the sleep the call goes back to the loop test with one sleepTime
\* more elapsed.
WriterSwitchedIsConsumed ==
  /\ [](\A c \in Clients :
          op[c] = "conditionalOverride" => result[c] # "WriterSwitched")
  /\ [][\A c \in Clients :
          op[c] = "conditionalOverride" =>
            /\ /\ ups[c] /\ rec.exists
               /\ \/ pc[c] = "insert" /\ pc'[c] # "insert"
                  \/ /\ pc[c] = "update" /\ pc'[c] # "update"
                     /\ rec.writer \notin {EmptyWriter, old[c]}
               => pc'[c] = "sleep" /\ result'[c] = "none" /\ rec' = rec
            /\ pc[c] = "sleep" /\ pc'[c] # "sleep"
               => /\ pc'[c] = "find" /\ elapsed'[c] = elapsed[c] + 1
                  /\ rec' = rec]_vars

\* client 2's conditional override sleeps after a WriterSwitched
ConditionalSleepsAfterSwitch ==
  op[2] = "conditionalOverride" /\ pc[2] = "sleep"

\* C27 (SpecFaulty).  Every store operation of lock(), rLock(), unlock()
\* and rUnlock() either has its regular outcome or fails, and a failed one
\* ends the call with an error in that step, with the store as it is:
\* nothing is tried again and no further operation is issued.
StoreFailureEndsCall ==
  [][\A c \in Clients :
       pc[c] \in {"update", "insert", "delete"} /\ pc'[c] # pc[c]
       => \/ BasicStep(c)
          \/ pc'[c] = "idle" /\ result'[c] = "StoreError" /\ rec' = rec]_vars

\* client 1's lock() has ended with the store's error although there is
\* no record in its way
LockGaveUpOnStoreError ==
  /\ op[1] = "lock" /\ result[1] = "StoreError"
  /\ ~rec.exists

\* C28 (Spec).  unlock() and rUnlock() are a delete and, only when the
\* delete removed nothing, an update, after which the call has ended: the
\* delete either removes the record and ends the call or leaves the store
\* as it is; the update either changes the record and ends the call or
\* ends it with NotHeld and the store as it is.  Neither ever sleeps.
ReleaseIsDeleteThenUpdate ==
  /\ [](\A c \in Clients :
          op[c] \in {"unlock", "rUnlock"} => pc[c] \in {"idle", "delete", "update"})
  /\ [][\A c \in Clients :
          op[c] \in {"unlock", "rUnlock"} /\ op'[c] = op[c] /\ pc'[c] # pc[c] =>
            /\ pc[c] = "idle" => pc'[c] = "delete" /\ rec' = rec
            /\ pc[c] = "delete" =>
                 \/ /\ pc'[c] = "idle" /\ result'[c] = "ok"
                    /\ rec.exists /\ ~rec'.exists
                 \/ pc'[c] = "update" /\ result'[c] = "none" /\ rec' = rec
            /\ pc[c] = "update" =>
                 /\ pc'[c] = "idle"
                 /\ \/ result'[c] = "ok" /\ rec' # rec
                    \/ result'[c] = "NotHeld" /\ rec' = rec]_vars

\* both release operations have been refused: client 1's unlock() and
\* client 2's rUnlock() have ended with NotHeld
BothReleasesRefused ==
  /\ op[1] = "unlock" /\ result[1] = "NotHeld"
  /\ op[2] = "rUnlock" /\ result[2] = "NotHeld"

LockAcquiresAtomicallyAtOnce ==
  [][\A c \in Clients :
       op[c] = "lock" /\ pc[c] \in {"update", "insert"} /\ pc'[c] # pc[c] =>
         /\ pc'[c] = "idle" =>
              /\ result'[c] = "ok" /\ rec' = MongoLock(c, <<>>)
              /\ \/ ~rec.exists
                 \/ emptyReadersQuery(rec) /\ rec.writer \in {EmptyWriter, c}
         /\ \/ pc[c] = "insert"
            \/ ~rec.exists
            \/ emptyReadersQuery(rec) /\ emptyWriterQuery(rec)
            => pc'[c] # "sleep"]_vars

\* C30, amended (SpecBasic).  The step that makes lock() return is
\* applied only to no record or to a record with no readers and writer
\* empty or c, and leaves exactly {writer: c, readers: []}.  An update
\* that finds such a record acquires at once; one that finds no record
\* goes on to create it, and the creation acquires when there is still
\* no record and sleeps when any record is there by then.
LockAcquiresByOneUpdate ==
  [][\A c \in Clients :
       op[c] = "lock" /\ pc[c] \in {"update", "insert"} /\ pc'[c] # pc[c] =>
         /\ pc'[c] = "idle" =>
              /\ result'[c] = "ok" /\ rec' = MongoLock(c, <<>>)
              /\ \/ ~rec.exists
                 \/ emptyReadersQuery(rec) /\ rec.writer \in {EmptyWriter, c}
         /\ pc[c] = "update" /\ rec.exists /\ emptyReadersQuery(rec)
              /\ rec.writer \in {EmptyWriter, c}
              => pc'[c] = "idle"
         /\ pc[c] = "update" /\ ~rec.exists => (pc'[c] = "insert" /\ rec' = rec)
         /\ pc[c] = "insert" =>
              IF rec.exists THEN pc'[c] = "sleep" /\ rec' = rec
                            ELSE pc'[c] = "idle"]_vars

\* client 1's lock() has acquired, not as a holder calling again, and
\* left {writer: 1, readers: []}, while client 2's lock() sleeps
LockAcquiredOtherSleeps ==
  /\ op[1] = "lock" /\ pc[1] = "idle" /\ result[1] = "ok" /\ ~reentry[1]
  /\ rec = MongoLock(1, <<>>)
  /\ op[2] = "lock" /\ pc[2] = "sleep"

\* C31 (Spec).  The step that makes rLock() return is its update on a
\* record whose writer is empty, or its insert on no record; after it the
\* writer is empty and readers is the readers before with c added if it
\* was not among them, <<c>> when the record was created.  No other step
\* of rLock() changes the record.
RLockAcquiresByOneUpdate ==
  [][\A c \in Clients :
       op[c] = "rLock" /\ pc[c] \in {"update", "insert", "sleep"} /\ pc'[c] # pc[c] =>
         IF pc'[c] = "idle"
           THEN /\ result'[c] = "ok" /\ pc[c] # "sleep"
                /\ rec'.exists /\ rec'.writer = EmptyWriter
                /\ IF rec.exists
                     THEN /\ pc[c] = "update" /\ rec.writer = EmptyWriter
                          /\ rec'.readers = IF c \in Elems(rec.readers)
                                              THEN rec.readers
                                              ELSE Append(rec.readers, c)
                     ELSE pc[c] = "insert" /\ rec'.readers = <<c>>
           ELSE rec' = rec]_vars

\* client 2's rLock() has returned with reader 1 still on the record:
\* readers is what it was, with 2 added
ReaderJoinedReader ==
  /\ op[2] = "rLock" /\ pc[2] = "idle" /\ result[2] = "ok" /\ ~reentry[2]
  /\ rec = MongoLock(EmptyWriter, <<1, 2>>)
  /\ holdR[1] /\ holdR[2]

\* C32 (Spec).  A store step of lock() or rLock() that does not make the
\* call return changes neither the record nor what any client holds, and
\* it sends the call to sleep exactly when a record is there (one its
\* filter does not match, or one created since its update found none).
BlockedAttemptLeavesRecord ==
  [][\A c \in Clients :
       op[c] \in {"lock", "rLock"} /\ pc[c] \in {"update", "insert"}
         /\ pc'[c] \notin {pc[c], "idle"} =>
           /\ rec' = rec /\ holdW' = holdW /\ holdR' = holdR
           /\ pc'[c] = "sleep" <=> rec.exists
           /\ rec.exists /\ pc[c] = "update" =>
                IF op[c] = "lock"
                  THEN ~emptyReadersQuery(rec) \/ rec.writer \notin {EmptyWriter, c}
                  ELSE ~emptyWriterQuery(rec)]_vars

\* writer 1 has called lock() again and got it while client 2's rLock()
\* sleeps; the record is as client 1 wrote it
ReaderSleepsWriterUntouched ==
  /\ op[2] = "rLock" /\ pc[2] = "sleep"
  /\ op[1] = "lock" /\ result[1] = "ok" /\ reentry[1] /\ holdW[1] = "yes"
  /\ rec = MongoLock(1, <<>>)

\* C33 (Spec).  unlock() removes the record only by its deleteOne, and
\* only when the record has writer c and no readers.  When the record has
\* writer c and readers, the deleteOne leaves it and the call goes on to
\* the update; the update on a record with writer c returns successfully
\* and leaves the record with an empty writer and the same readers.
UnlockKeepsRecordWithReaders ==
  [][\A c \in Clients :
       op[c] = "unlock" /\ pc[c] \in {"delete", "update"} /\ pc'[c] # pc[c] =>
         /\ ~rec'.exists /\ rec.exists =>
              pc[c] = "delete" /\ rec.writer = c /\ emptyReadersQuery(rec)
         /\ pc[c] = "delete" /\ rec.exists /\ rec.writer = c
              /\ ~emptyReadersQuery(rec) =>
              pc'[c] = "update" /\ rec' = rec
         /\ pc[c] = "update" /\ rec.exists /\ rec.writer = c =>
              /\ pc'[c] = "idle" /\ result'[c] = "ok"
              /\ rec' = MongoLock(EmptyWriter, rec.readers)]_vars

\* client 1, writer over reader 2, has called unlock(); its deleteOne
\* matched nothing and its update is next
UnlockFallsBackOverReader ==
  /\ op[1] = "unlock" /\ pc[1] = "update"
  /\ rec = MongoLock(1, <<2>>) /\ holdR[2]

\* C34 (Spec).  rUnlock() removes the record only by its deleteOne, and
\* only when readers is [c] and the writer is empty.  When readers is [c]
\* under a writer, the deleteOne leaves the record and the call goes on
\* to the update; the update on a record with c among its readers returns
\* successfully, takes c out of readers and leaves the writer as it was.
RUnlockNeverRemovesWriter ==
  [][\A c \in Clients :
       op[c] = "rUnlock" /\ pc[c] \in {"delete", "update"} /\ pc'[c] # pc[c] =>
         /\ ~rec'.exists /\ rec.exists =>
              pc[c] = "delete" /\ rec.writer = EmptyWriter /\ rec.readers = <<c>>
         /\ pc[c] = "delete" /\ rec.exists /\ rec.writer # EmptyWriter =>
              pc'[c] = "update" /\ rec' = rec
         /\ pc[c] = "update" /\ rec.exists /\ c \in Elems(rec.readers) =>
              /\ pc'[c] = "idle" /\ result'[c] = "ok"
              /\ rec'.exists /\ rec'.writer = rec.writer
              /\ Elems(rec'.readers) = Elems(rec.readers) \ {c}
         /\ rec'.writer = rec.writer]_vars

\* client 2, the only reader under writer 1, has called rUnlock(); its
\* deleteOne matched nothing and its update is next
SoleReaderLeavesUnderWriter ==
  /\ op[2] = "rUnlock" /\ pc[2] = "update"
  /\ rec = MongoLock(1, <<2>>) /\ holdW[1] = "yes"

ConditionalOutcomesAreClosed ==
  \A c \in Clients :
    op[c] = "conditionalOverride" /\ pc[c] = "idle" =>
      result[c] \in {"true", "false", "TimeoutExceeded"}

\* C37, as stated (Spec).  When a conditionalOverrideLockWriter call
\* returns true from an update that matched a record, the writer that
\* record had is the value the call handed to the update: the one its
\* predicate resolved true for.
OverrideReplacesApprovedWriter ==
  [][\A c \in Clients :
       op[c] = "conditionalOverride" /\ pc[c] = "update" /\ rec.exists
         /\ pc'[c] = "idle" /\ result'[c] = "true"
         => rec.writer = old[c]]_vars

\* C37, amended (Spec).  A conditionalOverrideLockWriter call hands to
\* its update either the writer it read and its predicate resolved true
\* for, or "" after a read that found no record (upsert allowed).  When
\* the call returns true from an update that matched a record, the
\* writer that record had is the value handed over or is empty, and the
\* update changed the writer only.
OverrideReplacesApprovedOrEmptyWriter ==
  [][\A c \in Clients :
       op[c] = "conditionalOverride" /\ pc[c] # "idle" =>
         /\ pc[c] = "find" /\ pc'[c] = "pred" => rec.exists /\ old'[c] = rec.writer
         /\ pc[c] # "update" /\ pc'[c] = "update" =>
              \/ pc[c] = "pred" /\ old'[c] = old[c]
              \/ pc[c] = "find" /\ ~rec.exists /\ ups[c] /\ old'[c] = EmptyWriter
         /\ pc[c] = "update" /\ rec.exists /\ pc'[c] = "idle" /\ result'[c] = "true" =>
              /\ rec.writer \in {EmptyWriter, old[c]}
              /\ rec' = MongoLock(c, rec.readers)]_vars

\* client 2's predicate approved writer 1, the writer has been emptied
\* since and client 2's update is next
ApprovedWriterGone ==
  /\ op[2] = "conditionalOverride" /\ pc[2] = "update" /\ old[2] = 1
  /\ rec.exists /\ rec.writer = EmptyWriter

\* C38 (SpecRetryFair).  No step makes lock() return to a client that is
\* among the readers, or rLock() to the client that is the writer.  A
\* reader that is inside lock() stays among the readers whatever the
\* others do, and a writer inside rLock() stays the writer unless another
\* client's override returns; so the reader's lock() never returns and
\* keeps sleeping and trying, and so does the writer's rLock() for as long
\* as it is the writer.
NoReentryAcrossModes ==
  /\ [][\A c \in Clients :
          /\ op[c] = "lock" /\ pc[c] # "idle" /\ c \in Elems(rec.readers) =>
               pc'[c] # "idle" /\ rec'.exists /\ c \in Elems(rec'.readers)
          /\ op[c] = "rLock" /\ pc[c] # "idle" /\ rec.exists /\ rec.writer = c =>
               /\ pc'[c] # "idle"
               /\ \/ rec'.exists /\ rec'.writer = c
                  \/ \E d \in Clients \ {c} :
                       /\ op[d] \in {"tryOverride", "conditionalOverride"}
                       /\ pc[d] # "idle" /\ pc'[d] = "idle"]_vars
  /\ \A c \in Clients :
       /\ (op[c] = "lock" /\ pc[c] = "update" /\ c \in Elems(rec.readers))
            ~> (pc[c] = "sleep")
       /\ (op[c] = "lock" /\ pc[c] = "sleep" /\ c \in Elems(rec.readers))
            ~> (pc[c] = "update")
       /\ (op[c] = "rLock" /\ pc[c] = "update" /\ rec.exists /\ rec.writer = c)
            ~> (pc[c] = "sleep" \/ ~rec.exists \/ rec.writer # c)
       /\ (op[c] = "rLock" /\ pc[c] = "sleep" /\ rec.exists /\ rec.writer = c)
            ~> (pc[c] = "update" \/ ~rec.exists \/ rec.writer # c)

\* client 1, the only holder as a reader, is inside lock() and sleeps
ReaderWaitsForItself ==
  /\ op[1] = "lock" /\ pc[1] = "sleep" /\ holdR[1]
  /\ rec = MongoLock(EmptyWriter, <<1>>)
  /\ pc[2] = "idle" /\ ~holdR[2] /\ holdW[2] # "yes"

\* C39 (SpecConditionalLess).  With conditionalOverrideLockWriter calls
\* only and the predicate oldWriter < newWriter, the record once created
\* stays, its writer is never empty, every change of the writer is to a
\* strictly greater client at the return of that client's call with
\* true, and the greatest client, once writer, stays writer.
WriterOnlyGrows ==
  /\ [](rec.exists => rec.writer \in Clients)
  /\ [][/\ rec.exists => rec'.exists /\ rec.writer <= rec'.writer
        /\ rec' # rec =>
             /\ rec'.exists /\ rec.writer < rec'.writer
             /\ pc[rec'.writer] # "idle" /\ pc'[rec'.writer] = "idle"
             /\ result'[rec'.writer] = "true"
        /\ rec.exists /\ rec.writer = NumClients => rec' = rec]_vars

\* client 1 was the writer and the greatest client has replaced it; the
\* last call of client 1 has returned false
GreatestKeepsTheLock ==
  /\ rec = MongoLock(NumClients, <<>>) /\ holdW[1] = "lost"
  /\ op[NumClients] = "conditionalOverride" /\ result[NumClients] = "true"
  /\ op[1] = "conditionalOverride" /\ result[1] = "false"

\* C40 (Spec).  A tryOverrideLockWriter call with upsert = true ends
\* either successfully, with c the writer of the record, or with the
\* writer-switched error, a record being there and left as it is; it
\* does not end with "lock not found" or "lock not found, upsert failed"
\* (the store of Spec never fails).
UpsertOverrideNeverNotFound ==
  [][\A c \in Clients :
       op[c] = "tryOverride" /\ pc[c] # "idle" /\ ups[c] /\ pc'[c] = "idle" =>
         \/ /\ result'[c] = "ok"
            /\ rec'.exists /\ rec'.writer = c
            /\ ~rec.exists \/ rec.writer \in {EmptyWriter, old[c]}
         \/ /\ result'[c] = "WriterSwitched"
            /\ rec' = rec /\ rec.exists]_vars

\* both clients called tryOverrideLockWriter on no record: client 1
\* created it, client 2 got the writer-switched error
UpsertOverridesRaced ==
  /\ op[1] = "tryOverride" /\ result[1] = "ok"
  /\ op[2] = "tryOverride" /\ result[2] = "WriterSwitched"
  /\ rec = MongoLock(1, <<>>) /\ holdW[1] = "yes" /\ holdW[2] = "no"

=============================================================================
